---- MODULE Spec2Model ----
(***************************************************************************)
(* Language-tutor chat: the client conversation state (src/app/page.tsx),  *)
(* the tutor route (src/app/api/tutor/route.ts) and the response decoders. *)
(*                                                                         *)
(* Text is a sequence of tokens.  A token is one character, [ch |-> c],    *)
(* an opaque run of characters that holds no whitespace, no backtick and   *)
(* is not JSON, [word |-> w], or the text of one JSON document that holds  *)
(* no backtick, [doc |-> v], v being the value JSON.parse gives for it.    *)
(* The character names are "bt" (backtick), "sp" (any whitespace          *)
(* character) and the letters "j", "s", "o", "n", "x".                     *)
(***************************************************************************)
EXTENDS Integers, Sequences, FiniteSets, TLC

(***************************************************************************)
(* Bounds                                                                  *)
(***************************************************************************)
MaxSends == 2
MaxLen == 7

(***************************************************************************)
(* Characters and text                                                     *)
(***************************************************************************)
Ch(c) == [ch |-> c]
Word(w) == [word |-> w]
Doc(v) == [doc |-> v]

BT == Ch("bt")
WS == Ch("sp")

IsCh(t, c) == "ch" \in DOMAIN t /\ t.ch = c
IsSpace(t) == IsCh(t, "sp")
IsDoc(t) == "doc" \in DOMAIN t

\* Does the literal lit (a sequence of characters) occur in s at position i?
LitAt(s, i, lit) ==
  /\ i + Len(lit) - 1 <= Len(s)
  /\ \A k \in 1..Len(lit) : IsCh(s[i + k - 1], lit[k])

\* Length of the longest run of whitespace of s that starts at position i.
RECURSIVE SpaceRun(_, _)
SpaceRun(s, i) ==
  IF i <= Len(s) /\ IsSpace(s[i]) THEN 1 + SpaceRun(s, i + 1) ELSE 0

\* String.prototype.trim
RECURSIVE TrimLeft(_)
TrimLeft(s) ==
  IF s # <<>> /\ IsSpace(Head(s)) THEN TrimLeft(Tail(s)) ELSE s

RECURSIVE TrimRight(_)
TrimRight(s) ==
  IF s # <<>> /\ IsSpace(s[Len(s)]) THEN TrimRight(SubSeq(s, 1, Len(s) - 1))
  ELSE s

Trim(s) == TrimLeft(TrimRight(s))

\* Length of the match of the fence pattern at position i of s, 0 if none.
\* First alternative: three backticks and jso, an optional n, then whitespace
\* (greedy).  Second alternative: whitespace (greedy), then three backticks.
FenceMatchAt(s, i) ==
  IF LitAt(s, i, <<"bt", "bt", "bt", "j", "s", "o">>)
  THEN LET n == IF LitAt(s, i + 6, <<"n">>) THEN 1 ELSE 0
       IN  6 + n + SpaceRun(s, i + 6 + n)
  ELSE LET w == SpaceRun(s, i)
       IN  IF LitAt(s, i + w, <<"bt", "bt", "bt">>) THEN w + 3 ELSE 0

\* content.replace(fence pattern, "") with the g flag: scan from the left, drop each
\* match and go on after it, keep every character no match starts at.
RECURSIVE ReplaceFrom(_, _)
ReplaceFrom(s, i) ==
  IF i > Len(s) THEN <<>>
  ELSE LET m == FenceMatchAt(s, i)
       IN  IF m > 0 THEN ReplaceFrom(s, i + m)
           ELSE <<s[i]>> \o ReplaceFrom(s, i + 1)

\* The replacement without the g flag: only the first match is dropped.
RECURSIVE ReplaceFirstFrom(_, _)
ReplaceFirstFrom(s, i) ==
  IF i > Len(s) THEN <<>>
  ELSE LET m == FenceMatchAt(s, i)
       IN  IF m > 0 THEN SubSeq(s, i + m, Len(s))
           ELSE <<s[i]>> \o ReplaceFirstFrom(s, i + 1)

ReplaceFirstFence(s) == ReplaceFirstFrom(s, 1)

ReplaceFences(s) == ReplaceFrom(s, 1)

\* const raw = content.replace(fence pattern, "").trim();
StripFences(s) == Trim(ReplaceFences(s))

HasFence(s) == \E i \in 1..Len(s) : LitAt(s, i, <<"bt", "bt", "bt">>)

(***************************************************************************)
(* JavaScript values: what JSON.parse yields and what the coercions give   *)
(***************************************************************************)
MaxScore == 10

JNull == [t |-> "null"]
JUndefined == [t |-> "undefined"]
JNaN == [t |-> "NaN"]
JNum(n) == [t |-> "num", n |-> n]
JStr(x) == [t |-> "str", s |-> x]
JBool(b) == [t |-> "bool", b |-> b]
JArr == [t |-> "arr"]
JObj(f) == [t |-> "obj", f |-> f]

\* JSON.parse(raw): surrounding whitespace is allowed, the rest must be the
\* text of exactly one JSON document; anything else throws SyntaxError.
JSONparse(raw) ==
  LET body == Trim(raw)
  IN  IF Len(body) = 1 /\ IsDoc(body[1])
      THEN [threw |-> FALSE, value |-> body[1].doc]
      ELSE [threw |-> TRUE]

\* typeof o === "object"
TypeofObject(v) == v.t \in {"obj", "arr", "null"}

\* ToBoolean
Truthy(v) ==
  CASE v.t = "null" -> FALSE
    [] v.t = "undefined" -> FALSE
    [] v.t = "NaN" -> FALSE
    [] v.t = "num" -> v.n # 0
    [] v.t = "str" -> v.s # ""
    [] v.t = "bool" -> v.b
    [] OTHER -> TRUE

\* "k" in o, for o an object or an array (an array has no such key)
HasKey(o, k) == o.t = "obj" /\ k \in DOMAIN o.f

\* o.k
Get(o, k) == IF HasKey(o, k) THEN o.f[k] ELSE JUndefined

\* a ?? b
Nullish(a, b) == IF a.t \in {"null", "undefined"} THEN b ELSE a

\* String(v)
ToStr(v) ==
  CASE v.t = "str" -> v.s
    [] v.t = "num" -> ToString(v.n)
    [] v.t = "bool" -> IF v.b THEN "true" ELSE "false"
    [] v.t = "null" -> "null"
    [] v.t = "undefined" -> "undefined"
    [] v.t = "NaN" -> "NaN"
    [] v.t = "arr" -> ""
    [] OTHER -> "[object Object]"

\* Number(v): the numeric strings are the decimal numerals of 0..MaxScore
ToNumber(v) ==
  CASE v.t = "num" -> v
    [] v.t = "NaN" -> v
    [] v.t = "str" ->
         IF v.s = "" THEN JNum(0)
         ELSE IF \E n \in 0..MaxScore : ToString(n) = v.s
              THEN JNum(CHOOSE n \in 0..MaxScore : ToString(n) = v.s)
              ELSE JNaN
    [] v.t = "bool" -> JNum(IF v.b THEN 1 ELSE 0)
    [] v.t = "null" -> JNum(0)
    [] v.t = "arr" -> JNum(0)
    [] OTHER -> JNaN

(***************************************************************************)
(* Response decoders                                                       *)
(***************************************************************************)
\* parseExplained without the check that the score key is present.
parseExplainedNoScoreCheck(content) ==
  LET raw == StripFences(content)
      p == JSONparse(raw)
  IN  IF p.threw THEN JNull
      ELSE LET o == p.value
           IN  IF /\ Truthy(o)
                  /\ TypeofObject(o)
                  /\ HasKey(o, "corrected")
                  /\ HasKey(o, "explanation")
                  /\ HasKey(o, "naturalSuggestion")
               THEN [corrected |-> ToStr(Nullish(Get(o, "corrected"), JStr(""))),
                     translation |-> ToStr(Nullish(Get(o, "translation"), JStr(""))),
                     explanation |-> ToStr(Nullish(Get(o, "explanation"), JStr(""))),
                     naturalSuggestion |->
                       ToStr(Nullish(Get(o, "naturalSuggestion"), JStr(""))),
                     score |-> Nullish(ToNumber(Get(o, "score")), JNum(0))]
               ELSE JNull

parseExplained(content) ==
  LET raw == StripFences(content)
      p == JSONparse(raw)
  IN  IF p.threw THEN JNull
      ELSE LET o == p.value
           IN  IF /\ Truthy(o)
                  /\ TypeofObject(o)
                  /\ HasKey(o, "corrected")
                  /\ HasKey(o, "explanation")
                  /\ HasKey(o, "naturalSuggestion")
                  /\ HasKey(o, "score")
               THEN [corrected |-> ToStr(Nullish(Get(o, "corrected"), JStr(""))),
                     translation |-> ToStr(Nullish(Get(o, "translation"), JStr(""))),
                     explanation |-> ToStr(Nullish(Get(o, "explanation"), JStr(""))),
                     naturalSuggestion |->
                       ToStr(Nullish(Get(o, "naturalSuggestion"), JStr(""))),
                     score |-> Nullish(ToNumber(Get(o, "score")), JNum(0))]
               ELSE JNull

\* parseInformal without the check that the translation key is present.
parseInformalNoTranslationCheck(content) ==
  LET raw == StripFences(content)
      p == JSONparse(raw)
  IN  IF p.threw THEN JNull
      ELSE LET o == p.value
           IN  IF /\ Truthy(o)
                  /\ TypeofObject(o)
                  /\ HasKey(o, "informal")
                  /\ HasKey(o, "alreadyCorrect")
               THEN [informal |-> ToStr(Nullish(Get(o, "informal"), JStr(""))),
                     alreadyCorrect |-> Truthy(Get(o, "alreadyCorrect")),
                     translation |-> ToStr(Nullish(Get(o, "translation"), JStr("")))]
               ELSE JNull

parseInformal(content) ==
  LET raw == StripFences(content)
      p == JSONparse(raw)
  IN  IF p.threw THEN JNull
      ELSE LET o == p.value
           IN  IF /\ Truthy(o)
                  /\ TypeofObject(o)
                  /\ HasKey(o, "informal")
                  /\ HasKey(o, "alreadyCorrect")
                  /\ HasKey(o, "translation")
               THEN [informal |-> ToStr(Nullish(Get(o, "informal"), JStr(""))),
                     alreadyCorrect |-> Truthy(Get(o, "alreadyCorrect")),
                     translation |-> ToStr(Nullish(Get(o, "translation"), JStr("")))]
               ELSE JNull

\* AssistantMessage that tries the explain decoder whatever the mode.
AssistantMessageAnyMode(content, mode) ==
  LET explained == parseExplained(content)
  IN  IF explained # JNull
      THEN [view |-> "explained", explained |-> explained]
      ELSE [view |-> "raw", text |-> content]

\* What AssistantMessage renders for one assistant turn under the mode it is
\* given: the explain card, the informal card, or the content itself.
AssistantMessage(content, mode) ==
  LET explained == IF mode = "explain" THEN parseExplained(content) ELSE JNull
      informal == IF mode = "informal" THEN parseInformal(content) ELSE JNull
  IN  IF explained # JNull
      THEN [view |-> "explained", explained |-> explained]
      ELSE IF informal # JNull
           THEN [view |-> "informal", informal |-> informal]
           ELSE [view |-> "raw", text |-> content]

(***************************************************************************)
(* Mode policy (route.ts)                                                  *)
(***************************************************************************)
Languages == {"en", "de"}
Modes == {"translate", "explain", "correct", "informal"}

GROQ_MODEL == "llama-3.1-8b-instant"
Temperature == "0.3"

\* The directive text: the fixed wording of the mode, with the language names
\* substituted where the template uses them.
systemPrompt(lang, mode) ==
  LET langName == IF lang = "en" THEN "ingles" ELSE "alemao"
      targetLang == IF lang = "en" THEN "English" ELSE "German"
  IN  CASE mode = "translate" -> <<Word("You are a translator"), Word(targetLang)>>
        [] mode = "explain" ->
             <<Word("You are a friendly tutor"), Word(langName), Word(targetLang)>>
        [] mode = "correct" -> <<Word("The user will write in English")>>
        [] mode = "informal" -> <<Word("The user will send you phrases in English")>>

(***************************************************************************)
(* Conversation state (page.tsx, Home) and the requests in flight          *)
(***************************************************************************)
VARIABLES language, mode, input, messages, loading, reqs, sends, dIn, dOut

vars == <<language, mode, input, messages, loading, reqs, sends, dIn, dOut>>
client == <<language, mode, input, messages, loading>>
decode == <<dIn, dOut>>

Turn(role, content) == [role |-> role, content |-> content]

\* Texts the input field can hold: typed, dictated or a suggestion.
InputTexts ==
  { <<WS>>,
    <<WS, Word("I go to school yesterday"), WS>> }

\* A JavaScript Error with a message, or a thrown value that is no Error.
JsError(msg) == [isError |-> TRUE, message |-> msg]
NonError == [isError |-> FALSE]

ExplainDoc ==
  Doc(JObj([k \in {"corrected", "translation", "explanation",
                   "naturalSuggestion", "score"} |->
              IF k = "score" THEN JNum(6) ELSE JStr(k)]))

\* What the provider can answer: a completion whose first choice has text, a
\* first choice without text, or no choice at all.
NoChoice == [choices |-> 0]
NoText == [choices |-> 1, hasText |-> FALSE]
Completion(text) == [choices |-> 1, hasText |-> TRUE, text |-> text]

ProviderTexts ==
  { <<WS, Word("I went to school yesterday."), WS>>,
    <<BT, BT, BT, Ch("j"), Ch("s"), Ch("o"), Ch("n"), WS, ExplainDoc, WS,
      BT, BT, BT>> }

ProviderAnswers == {NoChoice, NoText} \cup {Completion(t) : t \in ProviderTexts}

\* What groq.chat.completions.create can throw.
ProviderErrors == {JsError(<<Word("Connection error.")>>), JsError(<<>>), NonError}

\* What fetch can reject with.
FetchErrors == {JsError(<<Word("Failed to fetch")>>)}

Init ==
  /\ language = "en"
  /\ mode = "explain"
  /\ input = <<>>
  /\ messages = <<>>
  /\ loading = FALSE
  /\ reqs = {}
  /\ sends = 0
  /\ dIn = <<>>
  /\ dOut = [op |-> "none"]

\* onChange, a suggestion button (shown while the turn list is empty) or a
\* dictated text: setInput
SetInput(t) ==
  /\ input' = t
  /\ UNCHANGED <<language, mode, messages, loading, reqs, sends, decode>>

SetLanguage(l) ==
  /\ language' = l
  /\ UNCHANGED <<mode, input, messages, loading, reqs, sends, decode>>

SetMode(m) ==
  /\ mode' = m
  /\ UNCHANGED <<language, input, messages, loading, reqs, sends, decode>>

\* goToHome that also ends the loading state.
goToHomeResetsLoading ==
  /\ messages' = <<>>
  /\ input' = <<>>
  /\ loading' = FALSE
  /\ UNCHANGED <<language, mode, reqs, sends, decode>>

goToHome ==
  /\ messages' = <<>>
  /\ input' = <<>>
  /\ UNCHANGED <<language, mode, loading, reqs, sends, decode>>

\* RequestBody without the turns already held.
RequestBodyNewTurnOnly(lang, m, msgs, text) ==
  [language |-> lang, mode |-> m, messages |-> <<Turn("user", text)>>]

\* The request body send builds: JSON.stringify({language, mode, messages:
\* [...messages, {role: "user", content: text}]})
RequestBody(lang, m, msgs, text) ==
  [language |-> lang, mode |-> m, messages |-> Append(msgs, Turn("user", text))]

\* send(), up to the await of fetch.  Every caller passes no argument, so the
\* text is the input field's and the field is cleared.  The callback reads
\* input, loading, language, mode and messages of the render that created it;
\* the state updates of an event handler are committed before the next event
\* is dispatched, so these are the values of the state.
Send ==
  LET text == Trim(input)
  IN  /\ text # <<>>
      /\ ~loading
      /\ sends < MaxSends
      /\ input' = <<>>
      /\ messages' = Append(messages, Turn("user", text))
      /\ loading' = TRUE
      /\ sends' = sends + 1
      /\ reqs' = reqs \cup
           {[id |-> sends + 1,
             stage |-> "posted",
             body |-> RequestBody(language, mode, messages, text),
             keyPresent |-> FALSE,
             calls |-> 0,
             chatMessages |-> <<>>,
             responses |-> 0,
             status |-> 0,
             data |-> [none |-> TRUE],
             answer |-> [none |-> TRUE]]}
      /\ UNCHANGED <<language, mode, decode>>

(***************************************************************************)
(* The tutor route (route.ts, POST)                                        *)
(***************************************************************************)
KeyMissingMessage == <<Word("GROQ_API_KEY nao configurada.")>>

\* getGroq that builds the client without looking at the key.
getGroqUnchecked(key) == [threw |-> FALSE]

\* getGroq(): throws when the key is not set, else gives a provider client.
getGroq(key) ==
  IF ~key THEN [threw |-> TRUE, error |-> JsError(KeyMissingMessage)]
  ELSE [threw |-> FALSE]

\* BuildChatMessages with only the newest message forwarded.
BuildChatMessagesLastOnly(lang, m, msgs) ==
  <<Turn("system", systemPrompt(lang, m))>>
    \o [i \in 1..1 |-> Turn(msgs[Len(msgs)].role, msgs[Len(msgs)].content)]

\* chatMessages: the system directive, then every message of the body mapped
\* to {role, content}.
BuildChatMessages(lang, m, msgs) ==
  <<Turn("system", systemPrompt(lang, m))>>
    \o [i \in 1..Len(msgs) |-> Turn(msgs[i].role, msgs[i].content)]

\* catch (err): NextResponse.json({error: ...}, {status: 500})
ErrorResponse(err) ==
  [status |-> 500,
   data |-> [error |-> IF err.isError THEN err.message
                       ELSE <<Word("Erro ao processar.")>>]]

\* completion.choices[0]?.message?.content?.trim() ?? ""
CompletionContent(ans) ==
  IF ans.choices = 0 \/ ~ans.hasText THEN <<>> ELSE Trim(ans.text)

\* ContentResponse without the optional chaining: no first choice, or a first
\* choice without text, is a TypeError and goes to the catch.
ContentResponseStrict(ans) ==
  IF ans.choices = 0 \/ ~ans.hasText
  THEN [status |-> 500,
        data |-> [error |-> <<Word("Cannot read properties of undefined")>>]]
  ELSE [status |-> 200, data |-> [content |-> Trim(ans.text)]]

\* NextResponse.json({content})
ContentResponse(ans) == [status |-> 200, data |-> [content |-> CompletionContent(ans)]]

Respond(r, resp) ==
  [r EXCEPT !.stage = "responded", !.responses = @ + 1,
            !.status = resp.status, !.data = resp.data]

\* POST from its entry to the await of groq.chat.completions.create: reads
\* the body, gets the provider client (the key is read from the environment
\* on every call) and, with a client, issues the one provider call.
RoutePost(r, key) ==
  /\ r.stage = "posted"
  /\ LET g == getGroq(key)
         rk == [r EXCEPT !.keyPresent = key]
     IN  reqs' = (reqs \ {r}) \cup
           {IF g.threw THEN Respond(rk, ErrorResponse(g.error))
            ELSE [rk EXCEPT !.stage = "calling",
                            !.calls = @ + 1,
                            !.chatMessages =
                               BuildChatMessages(r.body.language, r.body.mode,
                                                 r.body.messages)]}
  /\ UNCHANGED <<client, sends, decode>>

\* The provider call resolves: POST answers with the content.  The record
\* keeps the completion it was answered with.
ProviderReturns(r, ans) ==
  /\ r.stage = "calling"
  /\ reqs' = (reqs \ {r}) \cup {Respond([r EXCEPT !.answer = ans], ContentResponse(ans))}
  /\ UNCHANGED <<client, sends, decode>>

\* ProviderThrows that issues the provider call once more before answering.
ProviderThrowsRetry(r, err) ==
  /\ r.stage = "calling"
  /\ reqs' = (reqs \ {r}) \cup
       {IF r.calls < 2 THEN [r EXCEPT !.calls = @ + 1]
        ELSE Respond(r, ErrorResponse(err))}
  /\ UNCHANGED <<client, sends, decode>>

\* The provider call rejects: POST's catch answers with status 500.
ProviderThrows(r, err) ==
  /\ r.stage = "calling"
  /\ reqs' = (reqs \ {r}) \cup {Respond(r, ErrorResponse(err))}
  /\ UNCHANGED <<client, sends, decode>>

(***************************************************************************)
(* send(), after the await of fetch                                        *)
(***************************************************************************)
\* catch (e): the inline error turn
ErrorTurn(e) ==
  Turn("assistant",
       <<Word("Erro:"), WS>>
         \o (IF e.isError THEN e.message ELSE <<Word("Erro desconhecido")>>))

\* The turn send appends for a response: res.json(), the throw on !res.ok
\* (data.error || "Erro na resposta") and its catch, or data.content ?? "".
ResponseTurn(status, data) ==
  IF ~(status \in 200..299)
  THEN ErrorTurn(JsError(IF "error" \in DOMAIN data /\ data.error # <<>>
                         THEN data.error
                         ELSE <<Word("Erro na resposta")>>))
  ELSE Turn("assistant", IF "content" \in DOMAIN data THEN data.content ELSE <<>>)

\* Settle that rebuilds the list from the turns the request was sent with
\* instead of the list held now.
SettleFromBody(r) ==
  /\ r.stage = "responded"
  /\ messages' = Append(r.body.messages, ResponseTurn(r.status, r.data))
  /\ loading' = FALSE
  /\ reqs' = reqs \ {r}
  /\ UNCHANGED <<language, mode, input, sends, decode>>

\* Settle without the finally block.
SettleNoFinally(r) ==
  /\ r.stage = "responded"
  /\ messages' = Append(messages, ResponseTurn(r.status, r.data))
  /\ reqs' = reqs \ {r}
  /\ UNCHANGED <<language, mode, input, loading, sends, decode>>

\* The fetch resolves with the route's response.
Settle(r) ==
  /\ r.stage = "responded"
  /\ messages' = Append(messages, ResponseTurn(r.status, r.data))
  /\ loading' = FALSE
  /\ reqs' = reqs \ {r}
  /\ UNCHANGED <<language, mode, input, sends, decode>>

\* The fetch rejects: the request never reached the route.
FetchRejects(r, e) ==
  /\ r.stage = "posted"
  /\ messages' = Append(messages, ErrorTurn(e))
  /\ loading' = FALSE
  /\ reqs' = reqs \ {r}
  /\ UNCHANGED <<language, mode, input, sends, decode>>

Next ==
  \/ \E t \in InputTexts : SetInput(t)
  \/ \E l \in Languages : SetLanguage(l)
  \/ \E m \in Modes : SetMode(m)
  \/ goToHome
  \/ Send
  \/ \E r \in reqs, key \in BOOLEAN : RoutePost(r, key)
  \/ \E r \in reqs, ans \in ProviderAnswers : ProviderReturns(r, ans)
  \/ \E r \in reqs, err \in ProviderErrors : ProviderThrows(r, err)
  \/ \E r \in reqs : Settle(r)
  \/ \E r \in reqs, e \in FetchErrors : FetchRejects(r, e)

Spec == Init /\ [][Next]_vars

(***************************************************************************)
(* The decoders on their own: a content string is drawn, then parsed or    *)
(* rendered                                                                *)
(***************************************************************************)
ExplainKeys == {"corrected", "translation", "explanation", "naturalSuggestion", "score"}
InformalKeys == {"informal", "alreadyCorrect", "translation"}

FieldSamples == {JStr("text"), JStr(""), JNull, JNum(3)}
ScoreSamples == {JNum(7), JStr("7"), JStr("seven"), JNull, JBool(TRUE), JNum(0), JStr("")}
AlreadyCorrectSamples == {JBool(TRUE), JBool(FALSE), JStr("false"), JNull, JNum(0)}

ExplainObjects ==
  { JObj([k \in K |-> IF k = "score" THEN sc ELSE v]) :
      K \in SUBSET ExplainKeys, v \in FieldSamples, sc \in ScoreSamples }

InformalObjects ==
  { JObj([k \in K |-> IF k = "alreadyCorrect" THEN ac ELSE v]) :
      K \in SUBSET InformalKeys, v \in FieldSamples, ac \in AlreadyCorrectSamples }

NonObjects == {JNull, JNum(7), JNum(0), JStr("text"), JStr(""), JBool(TRUE), JArr}

Documents == ExplainObjects \cup InformalObjects \cup NonObjects

\* What the provider puts before and after the JSON text.
Prefixes ==
  { <<>>,
    <<WS>>,
    <<BT, BT, BT, Ch("j"), Ch("s"), Ch("o"), Ch("n"), WS>>,
    <<BT, BT, BT, Ch("j"), Ch("s"), Ch("o"), WS>>,
    <<BT, BT, BT, Ch("j"), Ch("s"), WS>>,
    <<BT, BT, BT, WS>>,
    <<Ch("x"), WS>> }

Suffixes == { <<>>, <<WS, BT, BT, BT>>, <<WS, BT, BT, BT, WS>>, <<WS, Ch("x")>> }

WrappedDocuments ==
  { pre \o <<Doc(d)>> \o post : pre \in Prefixes, d \in Documents, post \in Suffixes }

\* Every text of at most MaxLen characters over backtick, whitespace and x.
FenceTexts == UNION { [1..n -> {BT, WS, Ch("x")}] : n \in 0..MaxLen }

DecodeInputs == WrappedDocuments \cup FenceTexts

DecodeInit ==
  /\ language = "en"
  /\ mode = "explain"
  /\ input = <<>>
  /\ messages = <<>>
  /\ loading = FALSE
  /\ reqs = {}
  /\ sends = 0
  /\ dIn \in DecodeInputs
  /\ dOut = [op |-> "none"]

RunParseExplained ==
  /\ dOut' = [op |-> "parseExplained", result |-> parseExplained(dIn)]
  /\ UNCHANGED <<client, reqs, sends, dIn>>

RunParseInformal ==
  /\ dOut' = [op |-> "parseInformal", result |-> parseInformal(dIn)]
  /\ UNCHANGED <<client, reqs, sends, dIn>>

RunAssistantMessage(m) ==
  /\ dOut' = [op |-> "AssistantMessage", mode |-> m, out |-> AssistantMessage(dIn, m)]
  /\ UNCHANGED <<client, reqs, sends, dIn>>

\* The strip step of both decoders, applied to the content and then to its
\* own output.
RunStripFences ==
  /\ dOut' = [op |-> "StripFences", once |-> StripFences(dIn),
              twice |-> StripFences(StripFences(dIn))]
  /\ UNCHANGED <<client, reqs, sends, dIn>>

DecodeNext ==
  \/ RunParseExplained
  \/ RunParseInformal
  \/ \E m \in Modes : RunAssistantMessage(m)
  \/ RunStripFences

DecodeSpec == DecodeInit /\ [][DecodeNext]_vars

(***************************************************************************)
(* Properties                                                              *)
(***************************************************************************)
Ids(S) == {r.id : r \in S}

IsErrorTurn(t) ==
  t.role = "assistant" /\ Len(t.content) >= 1 /\ t.content[1] = Word("Erro:")

RawModes == {"translate", "correct"}
StructuredModes == {"explain", "informal"}

\* The keys each decoder tests with the in operator.
CheckedKeys(m) ==
  IF m = "explain" THEN {"corrected", "explanation", "naturalSuggestion", "score"}
  ELSE {"informal", "alreadyCorrect", "translation"}

\* Parsing throws, the parsed value is not an object, or a checked key is absent.
DecodeFails(c, m) ==
  LET p == JSONparse(StripFences(c))
  IN  \/ p.threw
      \/ p.value.t # "obj"
      \/ \E k \in CheckedKeys(m) : ~HasKey(p.value, k)

\* C1: every provider call a request makes is given the system directive of
\* the request's (language, mode) followed by the request's history, turn for
\* turn, with nothing added, dropped or reordered.
C1_ProviderGetsDirectiveThenHistory ==
  \A r \in reqs :
    r.calls > 0 =>
      LET h == r.body.messages
          cm == r.chatMessages
      IN  /\ Len(cm) = Len(h) + 1
          /\ cm[1] = Turn("system", systemPrompt(r.body.language, r.body.mode))
          /\ \A i \in 1..Len(h) : cm[i + 1] = h[i]

C1_Witness ==
  \E r \in reqs : r.calls > 0 /\ Len(r.body.messages) >= 3

\* C2: the history of every request send dispatches is the turn list held at
\* submit time followed by the new user turn, whose text is the trimmed,
\* non-empty input.
C2_BodyIsConversationPlusNewTurn ==
  [][\A r \in reqs' :
       r.id \notin Ids(reqs) =>
         LET b == r.body.messages
         IN  /\ r.stage = "posted"
             /\ Len(b) >= 1
             /\ Trim(input) # <<>>
             /\ b[Len(b)] = Turn("user", Trim(input))
             /\ SubSeq(b, 1, Len(b) - 1) = messages]_vars

C2_Witness ==
  \E r \in reqs : r.stage = "posted" /\ Len(r.body.messages) >= 3

\* C3: a parsed JSON object that lacks any one of the five keys corrected,
\* translation, explanation, naturalSuggestion, score makes parseExplained
\* return null.
C3_MissingKeyDecodesToNull ==
  dOut.op = "parseExplained" =>
    LET p == JSONparse(StripFences(dIn))
    IN  \A k \in ExplainKeys :
          (~p.threw /\ p.value.t = "obj" /\ ~HasKey(p.value, k))
            => dOut.result = JNull

\* C4: a successful explain decode has a numeric score that is never NaN:
\* "7" and 7 give 7 and "seven" gives 0.
C4_ScoreNeverNaN ==
  (dOut.op = "parseExplained" /\ dOut.result # JNull) =>
    LET given == Get(JSONparse(StripFences(dIn)).value, "score")
    IN  /\ dOut.result.score.t = "num"
        /\ given \in {JStr("7"), JNum(7)} => dOut.result.score = JNum(7)
        /\ given = JStr("seven") => dOut.result.score = JNum(0)

\* C5 as stated: under modes translate and correct an assistant turn is shown
\* as its content with the fence markers and surrounding whitespace stripped.
C5_RawModesShowStrippedText ==
  \A i \in 1..Len(messages) :
    (messages[i].role = "assistant" /\ mode \in RawModes) =>
      AssistantMessage(messages[i].content, mode)
        = [view |-> "raw", text |-> StripFences(messages[i].content)]

\* C5 as amended: under modes translate and correct an assistant turn is shown
\* as its content exactly as stored, fence markers included.
C5_RawModesShowContentVerbatim ==
  \A i \in 1..Len(messages) :
    (messages[i].role = "assistant" /\ mode \in RawModes) =>
      AssistantMessage(messages[i].content, mode)
        = [view |-> "raw", text |-> messages[i].content]

C5_Witness ==
  \E i \in 1..Len(messages) :
    /\ messages[i].role = "assistant"
    /\ mode \in RawModes
    /\ HasFence(messages[i].content)

\* C6: under modes explain and informal, when the decode fails (parse throws,
\* the value is no object, or a checked key is absent) the decoder returns
\* null and the turn is shown as its raw content, unchanged.
C6_DecodeFailureShowsRawText ==
  /\ (dOut.op = "AssistantMessage" /\ dOut.mode \in StructuredModes
        /\ DecodeFails(dIn, dOut.mode))
       => dOut.out = [view |-> "raw", text |-> dIn]
  /\ (dOut.op = "parseExplained" /\ DecodeFails(dIn, "explain"))
       => dOut.result = JNull
  /\ (dOut.op = "parseInformal" /\ DecodeFails(dIn, "informal"))
       => dOut.result = JNull

C6_Witness ==
  /\ dOut.op = "AssistantMessage"
  /\ dOut.mode = "explain"
  /\ ~JSONparse(StripFences(dIn)).threw
  /\ JSONparse(StripFences(dIn)).value.t = "obj"
  /\ HasKey(JSONparse(StripFences(dIn)).value, "corrected")
  /\ ~HasKey(JSONparse(StripFences(dIn)).value, "score")
  /\ dIn # <<>>

\* C7: a request handled with the key absent never makes a provider call and
\* is answered with the credential-missing error.
C7_NoProviderCallWithoutKey ==
  \A r \in reqs :
    (r.stage # "posted" /\ ~r.keyPresent) =>
      /\ r.calls = 0
      /\ r.stage = "responded"
      /\ r.status = 500
      /\ r.data = [error |-> KeyMissingMessage]

C7_Witness ==
  \E r \in reqs :
    /\ r.stage = "responded"
    /\ ~r.keyPresent
    /\ r.body.mode = "translate"
    /\ r.body.language = "de"

\* C8: a request makes at most one provider call and gets exactly one
\* response; a missing key or a provider failure is answered once, with
\* status 500 and one error string, and an answered request changes no more.
C8_OneCallOneResponse ==
  /\ [](\A r \in reqs :
          /\ r.calls <= 1
          /\ r.responses <= 1
          /\ r.stage = "responded" =>
               /\ r.responses = 1
               /\ (~r.keyPresent \/ "none" \in DOMAIN r.answer) =>
                    (r.status = 500 /\ DOMAIN r.data = {"error"}))
  /\ [][\A r \in reqs :
          r.stage = "responded" =>
            \A q \in reqs' : q.id = r.id => q = r]_vars

C8_Witness ==
  \E r \in reqs :
    r.stage = "responded" /\ r.keyPresent /\ r.calls = 1 /\ r.status = 500

\* C9: a completion with no choice, or a first choice with no text, is
\* answered with status 200 and empty content, and the client then appends an
\* assistant turn with empty content.
C9_NoChoiceIsEmptyContent ==
  [][/\ \A r \in reqs' :
          r.answer \in {NoChoice, NoText} =>
            (r.stage = "responded" /\ r.status = 200
               /\ r.data = [content |-> <<>>])
     /\ \A r \in reqs :
          (r.answer \in {NoChoice, NoText} /\ r.id \notin Ids(reqs')) =>
            messages' = Append(messages, Turn("assistant", <<>>))]_vars

C9_Witness ==
  \E i \in 1..Len(messages) : messages[i] = Turn("assistant", <<>>)

\* C10: when the fetch of a request settles, by a response or by a rejection,
\* exactly one assistant turn is appended (the content of a successful
\* response, else an Erro: turn) and loading becomes false.
C10_SettleAppendsOneTurnAndUnlocks ==
  [][\A r \in reqs :
       r.id \notin Ids(reqs') =>
         /\ Len(messages') = Len(messages) + 1
         /\ SubSeq(messages', 1, Len(messages)) = messages
         /\ messages'[Len(messages')].role = "assistant"
         /\ IF r.stage = "responded" /\ r.status = 200
            THEN messages'[Len(messages')].content = r.data.content
            ELSE IsErrorTurn(messages'[Len(messages')])
         /\ loading' = FALSE]_vars

\* A send was accepted after a failed one: a user turn follows an Erro: turn.
C10_Witness ==
  \E i \in 1..Len(messages) :
    /\ IsErrorTurn(messages[i])
    /\ i < Len(messages)
    /\ messages[i + 1].role = "user"
    /\ loading

\* C11: every change of the turn list either appends one turn and leaves the
\* earlier turns as they were, in order, or is the reset, which replaces the
\* list by the empty list and touches nothing but the list and the input.
C11_TurnsAppendOnlyOrCleared ==
  [][\/ messages' = messages
     \/ /\ messages' = <<>>
        /\ input' = <<>>
        /\ UNCHANGED <<language, mode, loading, reqs, sends>>
     \/ /\ Len(messages') = Len(messages) + 1
        /\ SubSeq(messages', 1, Len(messages)) = messages]_vars

\* A reset fell between a send and its answer, and the answer was appended to
\* the emptied list.
C11_Witness ==
  /\ Len(messages) = 1
  /\ messages[1].role = "assistant"
  /\ sends = 1

\* C12: an assistant turn is rendered with the mode of the request that
\* produced it: the turn a request's answer appends is rendered as under the
\* request's mode, and a step that leaves the turn list alone leaves the
\* rendering of every assistant turn alone, whatever it does to the mode
\* selector.
C12_TurnDecodedWithRequestMode ==
  [][/\ \A r \in reqs :
          (r.id \notin Ids(reqs') /\ r.stage = "responded") =>
            AssistantMessage(messages'[Len(messages')].content, mode')
              = AssistantMessage(messages'[Len(messages')].content, r.body.mode)
     /\ messages' = messages =>
          \A i \in 1..Len(messages) :
            messages[i].role = "assistant" =>
              AssistantMessage(messages[i].content, mode')
                = AssistantMessage(messages[i].content, mode)]_vars

\* Length of the run of backticks of s that starts at position i.
RECURSIVE BacktickRun(_, _)
BacktickRun(s, i) ==
  IF i <= Len(s) /\ IsCh(s[i], "bt") THEN 1 + BacktickRun(s, i + 1) ELSE 0

\* Every maximal run of backticks of s is made of whole fence markers.
OnlyWholeFences(s) ==
  \A i \in 1..Len(s) :
    (IsCh(s[i], "bt") /\ (i = 1 \/ ~IsCh(s[i - 1], "bt")))
      => BacktickRun(s, i) % 3 = 0

\* C13 as stated: stripping the output of a strip returns it unchanged, for
\* every input.
C13_StripIdempotent ==
  dOut.op = "StripFences" => dOut.twice = dOut.once

\* C13 as amended: stripping the output of a strip returns it unchanged, for
\* every input whose backticks come only in runs of a multiple of three.
C13_StripIdempotentOnWholeFences ==
  (dOut.op = "StripFences" /\ OnlyWholeFences(dIn)) => dOut.twice = dOut.once

C13_Witness ==
  /\ dOut.op = "StripFences"
  /\ OnlyWholeFences(dIn)
  /\ HasFence(dIn)
  /\ dOut.once # <<>>
  /\ dOut.once # dIn

\* The string a text field of a decoded shape holds for the JSON value v
\* given for it: a string itself, a number as its numeral, null as the empty
\* string.
StringOf(v) ==
  CASE v = JNull -> ""
    [] v = JNum(3) -> "3"
    [] OTHER -> v.s

\* C14: parseInformal succeeds exactly when the stripped text parses to a JSON
\* object with the three keys informal, alreadyCorrect and translation; its
\* result then holds informal and translation as strings and alreadyCorrect as
\* a boolean (false for false, null and 0, true for true and for the string
\* "false"); an object without one of the three keys gives null.
C14_InformalDecode ==
  dOut.op = "parseInformal" =>
    LET p == JSONparse(StripFences(dIn))
        complete == /\ ~p.threw
                    /\ p.value.t = "obj"
                    /\ InformalKeys \subseteq DOMAIN p.value.f
    IN  /\ (dOut.result # JNull) <=> complete
        /\ complete =>
             /\ DOMAIN dOut.result = InformalKeys
             /\ dOut.result.informal = StringOf(p.value.f["informal"])
             /\ dOut.result.translation = StringOf(p.value.f["translation"])
             /\ dOut.result.alreadyCorrect
                  = (p.value.f["alreadyCorrect"] \in {JBool(TRUE), JStr("false")})

C14_Witness ==
  /\ dOut.op = "parseInformal"
  /\ dOut.result # JNull
  /\ dOut.result.informal = "3"
  /\ dOut.result.alreadyCorrect
  /\ HasFence(dIn)

\* C15: at most one request is in flight, loading is true exactly while one
\* is, also across a reset, and from a state where loading is true or the
\* trimmed input is empty no step dispatches a request or appends a user turn.
C15_OneRequestInFlight ==
  /\ [](Cardinality(reqs) <= 1 /\ (loading <=> reqs # {}))
  /\ [][(loading \/ Trim(input) = <<>>) =>
          /\ Ids(reqs') \subseteq Ids(reqs)
          /\ ~(/\ Len(messages') = Len(messages) + 1
               /\ messages'[Len(messages')].role = "user")]_vars

\* A reset fell into a request, and a text is ready to be sent while the
\* request is still out.
C15_Witness ==
  /\ loading
  /\ reqs # {}
  /\ messages = <<>>
  /\ Trim(input) # <<>>

\* C16: the turn list alternates user, assistant, user, ... and starts with a
\* user turn.
C16_TurnsAlternate ==
  \A i \in 1..Len(messages) :
    messages[i].role = (IF i % 2 = 1 THEN "user" ELSE "assistant")

\* C17: no request's history holds a locally generated Erro: turn.
C17_NoErrorTurnInHistory ==
  \A r \in reqs :
    \A i \in 1..Len(r.body.messages) : ~IsErrorTurn(r.body.messages[i])

====
